---- MODULE Spec2Model ----
(***************************************************************************)
(* Bolt (src/Boltjs/bolt.js): a MongoDB-like document API over one         *)
(* IndexedDB object store (keyPath '_id', autoIncrement).                  *)
(*                                                                         *)
(* One action of the model is one turn of the JavaScript event loop: an    *)
(* adapter event (an open request or a store request completing) together  *)
(* with the handler it fires and all promise continuations that run before *)
(* control returns to the event loop, or a public method call up to its    *)
(* first suspension on the adapter.                                        *)
(***************************************************************************)
EXTENDS Integers, Sequences, FiniteSets, TLC

(***************************************************************************)
(* Bounds of the model.                                                    *)
(***************************************************************************)
MaxProcs == 2      \* concurrent callers of the public API
MaxOps == 2        \* public operations started in one behaviour
MaxBatch == 2      \* documents handed to one insertMany
MaxKey == 3        \* largest primary key the key generator hands out
MaxDocs == 2       \* documents of a read-all snapshot in the query runs
MaxStages == 2     \* stages of an aggregation pipeline

(***************************************************************************)
(* JavaScript values.  Every value is a record of the same shape so that   *)
(* values of different types can be compared: t is the type tag, n the     *)
(* number (or the identity of an object), s the string.                    *)
(***************************************************************************)
Undef == [t |-> "undefined", n |-> 0, s |-> ""]
NaN == [t |-> "nan", n |-> 0, s |-> ""]
Num(n) == [t |-> "number", n |-> n, s |-> ""]
Str(s) == [t |-> "string", n |-> 0, s |-> s]
Obj(r) == [t |-> "object", n |-> r, s |-> ""]

\* ToString(value) as used by + and by property-key coercion
JsToString(v) ==
  CASE v.t = "number" -> ToString(v.n)
    [] v.t = "string" -> v.s
    [] v.t = "nan" -> "NaN"
    [] v.t = "undefined" -> "undefined"
    [] OTHER -> "[object Object]"

\* ToBoolean(value): the operand test of || and of !
Truthy(v) ==
  CASE v.t = "number" -> v.n # 0
    [] v.t = "string" -> v.s # ""
    [] v.t = "object" -> TRUE
    [] OTHER -> FALSE

\* a || b
JsOr(a, b) == IF Truthy(a) THEN a ELSE b

\* a + b: string concatenation when either operand is a string or an object,
\* numeric addition otherwise (undefined and NaN make the sum NaN)
JsAdd(a, b) ==
  IF a.t \in {"string", "object"} \/ b.t \in {"string", "object"}
    THEN Str(JsToString(a) \o JsToString(b))
  ELSE IF a.t = "number" /\ b.t = "number" THEN Num(a.n + b.n)
  ELSE NaN

\* a === b: same type and same value; NaN equals nothing; an object equals
\* only itself (same identity)
StrictEq(a, b) == a.t = b.t /\ a.t # "nan" /\ a = b

(***************************************************************************)
(* Documents are total functions over Fields; a field the JavaScript       *)
(* object does not have reads as undefined, which is what doc[key] gives.  *)
(* Queries, patches and seeds are functions over the keys they carry.      *)
(***************************************************************************)
Fields == {"_id", "a", "b"}
NoFields == [k \in {} |-> Undef]

\* doc[key]
Get(doc, key) == IF key \in DOMAIN doc THEN doc[key] ELSE Undef

\* a == b where a === b was meant: a number equals the string that spells it
LooseEq(a, b) ==
  IF a.t = b.t THEN StrictEq(a, b)
  ELSE {a.t, b.t} = {"number", "string"} /\ JsToString(a) = JsToString(b)
MatchesLoosely(doc, query) == \A key \in DOMAIN query : LooseEq(Get(doc, key), query[key])

\* operator objects skipped instead of compared
MatchesSkippingOperators(doc, query) ==
  \A key \in DOMAIN query : query[key].t = "object" \/ StrictEq(Get(doc, key), query[key])

\* Object.keys(query).every(key => doc[key] === query[key])
Matches(doc, query) == \A key \in DOMAIN query : StrictEq(Get(doc, key), query[key])

\* { ...doc, ...update }
Merge(doc, update) ==
  [k \in Fields |-> IF k \in DOMAIN update THEN update[k] ELSE Get(doc, k)]

\* array.filter(doc => matches(doc, query))
RECURSIVE Filter(_, _)
Filter(docs, query) ==
  IF docs = <<>> THEN <<>>
  ELSE IF Matches(Head(docs), query) THEN <<Head(docs)>> \o Filter(Tail(docs), query)
  ELSE Filter(Tail(docs), query)

\* .reduce((acc, doc) => acc + (doc[field] || 0), 0)
RECURSIVE Reduce(_, _, _)
Reduce(acc, docs, field) ==
  IF docs = <<>> THEN acc
  ELSE Reduce(JsAdd(acc, JsOr(Get(Head(docs), field), Num(0))), Tail(docs), field)

\* the onsuccess handler of sum: filter by the condition, add up the field
SumOf(all, field, condition) == Reduce(Num(0), Filter(all, condition), field)

(***************************************************************************)
(* Aggregation.  A stage is [tag, q, g]: tag is the stage's key, q the     *)
(* value of $match, g the value of $group = [id, initial, keys] where id   *)
(* is the field named by $group._id, initial the seed object and keys is   *)
(* Object.keys($group) in order.                                           *)
(*                                                                         *)
(* The $group stage collects its accumulators in a plain object, grouped.  *)
(* The model keeps that object as the sequence of its properties in        *)
(* creation order, [k, acc], where k is the property key (a string).       *)
(***************************************************************************)
NoGroup == [id |-> "_id", initial |-> NoFields, keys |-> <<>>]
MatchStage(q) == [tag |-> "$match", q |-> q, g |-> NoGroup]
GroupStage(id, initial, keys) ==
  [tag |-> "$group", q |-> NoFields, g |-> [id |-> id, initial |-> initial, keys |-> keys]]
OtherStage(tag) == [tag |-> tag, q |-> NoFields, g |-> NoGroup]

\* the position of property key k in grouped, 0 when grouped[k] is undefined
KeyPos(grouped, k) ==
  IF \E i \in 1..Len(grouped) : grouped[i].k = k
    THEN CHOOSE i \in 1..Len(grouped) : grouped[i].k = k
    ELSE 0

\* { _id: key, ...stage.$group.initial }
NewAcc(key, initial) ==
  [f \in Fields |-> IF f \in DOMAIN initial THEN initial[f]
                    ELSE IF f = "_id" THEN key ELSE Undef]

\* Object.keys(stage.$group).forEach(field => { if (field !== '_id' && field !==
\* 'initial') grouped[key][field] = (grouped[key][field] || 0) + doc[field] })
RECURSIVE Accumulate(_, _, _)
Accumulate(acc, doc, keys) ==
  IF keys = <<>> THEN acc
  ELSE LET field == Head(keys)
       IN IF field # "_id" /\ field # "initial"
            THEN Accumulate([acc EXCEPT ![field] = JsAdd(JsOr(acc[field], Num(0)), Get(doc, field))],
                            doc, Tail(keys))
            ELSE Accumulate(acc, doc, Tail(keys))

\* result.forEach(doc => { const key = doc[stage.$group._id]; if (!grouped[key])
\* grouped[key] = {...}; ... })
RECURSIVE GroupDocs(_, _, _)
GroupDocs(grouped, docs, g) ==
  IF docs = <<>> THEN grouped
  ELSE LET doc == Head(docs)
           key == Get(doc, g.id)
           k == JsToString(key)
           seeded == IF KeyPos(grouped, k) = 0
                       THEN Append(grouped, [k |-> k, acc |-> NewAcc(key, g.initial)])
                       ELSE grouped
           i == KeyPos(seeded, k)
       IN GroupDocs([seeded EXCEPT ![i].acc = Accumulate(seeded[i].acc, doc, g.keys)],
                    Tail(docs), g)

\* the non-negative integers a property key of the model can spell
Numerals == 0..9

\* a property key that is an array index ("0", "1", ...): such keys are
\* enumerated first, in ascending numeric order
IsArrayIndex(k) == \E n \in Numerals : ToString(n) = k
IndexValue(k) == CHOOSE n \in Numerals : ToString(n) = k

\* the accumulators of the properties whose key satisfies the test, in
\* creation order
RECURSIVE NamedValues(_)
NamedValues(grouped) ==
  IF grouped = <<>> THEN <<>>
  ELSE IF IsArrayIndex(Head(grouped).k) THEN NamedValues(Tail(grouped))
  ELSE <<Head(grouped).acc>> \o NamedValues(Tail(grouped))

\* the accumulators of the array-index properties, in ascending index order
RECURSIVE IndexedValues(_, _)
IndexedValues(grouped, from) ==
  LET idx == {i \in 1..Len(grouped) :
                IsArrayIndex(grouped[i].k) /\ IndexValue(grouped[i].k) >= from}
  IN IF idx = {} THEN <<>>
     ELSE LET i == CHOOSE i \in idx : \A j \in idx : IndexValue(grouped[i].k) <= IndexValue(grouped[j].k)
          IN <<grouped[i].acc>> \o IndexedValues(grouped, IndexValue(grouped[i].k) + 1)

\* Object.values(grouped)
ObjectValues(grouped) == IndexedValues(grouped, 0) \o NamedValues(grouped)

\* a stage that is neither $match nor $group empties the working set
ApplyStageStrictly(result, stage) ==
  IF stage.tag = "$match" THEN Filter(result, stage.q)
  ELSE IF stage.tag = "$group" THEN ObjectValues(GroupDocs(<<>>, result, stage.g))
  ELSE <<>>

\* one iteration of pipeline.forEach
ApplyStage(result, stage) ==
  IF stage.tag = "$match" THEN Filter(result, stage.q)
  ELSE IF stage.tag = "$group" THEN ObjectValues(GroupDocs(<<>>, result, stage.g))
  ELSE result

\* the onsuccess handler of aggregate: the stages left to right
RECURSIVE RunPipeline(_, _)
RunPipeline(result, pipeline) ==
  IF pipeline = <<>> THEN result
  ELSE RunPipeline(ApplyStage(result, Head(pipeline)), Tail(pipeline))

\* the last matching document instead of the first
LastMatch(all, query) ==
  IF Filter(all, query) = <<>> THEN <<>>
  ELSE <<Filter(all, query)[Len(Filter(all, query))]>>

\* request.result.find(doc => matches(doc, query)) || null; null is the empty
\* sequence
FirstMatch(all, query) ==
  IF Filter(all, query) = <<>> THEN <<>> ELSE <<Head(Filter(all, query))>>

(***************************************************************************)
(* State.                                                                  *)
(***************************************************************************)
VARIABLES
  db,        \* this.db: 0 is null, n > 0 the n-th connection opened
  idb,       \* the database: [exists, created, conns]
  openq,     \* the open requests not yet answered, oldest first: [p, i]
  store,     \* the object store: primary key -> document
  keyGen,    \* the key generator of the store (autoIncrement)
  txs,       \* the live transactions: number -> [mode, reqs]
  txCount,   \* transactions begun so far
  proc,      \* per caller: the call in flight
  last,      \* the call that settled last
  nops,      \* public operations started so far
  prev       \* the call that settled last while nothing else was in flight

vars == <<db, idb, openq, store, keyGen, txs, txCount, proc, last, nops, prev>>

Procs == 1..MaxProcs
NoDoc == [k \in Fields |-> Undef]
Doc(id, a, b) == [k \in Fields |-> IF k = "_id" THEN id ELSE IF k = "a" THEN a ELSE b]
NoPrev ==
  [op |-> "none", q |-> NoFields, patch |-> NoFields, st |-> "idle", err |-> "", snap |-> <<>>]
Idle ==
  [op |-> "none", st |-> "idle", err |-> "", q |-> NoFields, patch |-> NoFields, field |-> "",
   pipeline |-> <<>>, docs |-> <<>>, upd |-> <<>>, sub |-> <<>>, out |-> <<>>,
   all |-> <<>>, h |-> 0, reopened |-> FALSE, removed |-> 0, follows |-> NoPrev]

InsertOps == {"insertOne", "insertMany"}
ReadOps == {"find", "findOne", "sum", "aggregate"}
WriteOps == {"update", "delete"}

\* the call of p has an adapter request outstanding
Busy(c) ==
  \/ c.st \in {"opening", "reading", "writing"}
  \/ \E i \in 1..Len(c.sub) : c.sub[i] \in {"opening", "adding", "putting", "deleting"}

Settled(c) == c.st \in {"resolved", "rejected"} /\ ~Busy(c)

\* store.getAll(): every record, in ascending key order
RECURSIVE ReadFrom(_, _)
ReadFrom(st, from) ==
  LET keys == {k \in DOMAIN st : k >= from}
  IN IF keys = {} THEN <<>>
     ELSE LET k == CHOOSE k \in keys : \A j \in keys : k <= j
          IN <<st[k]>> \o ReadFrom(st, k + 1)
ReadAll(st) == ReadFrom(st, 0)

Without(f, k) == [x \in DOMAIN f \ {k} |-> f[x]]

(***************************************************************************)
(* Transactions.  All transactions have the one store as their scope; two  *)
(* of them conflict unless both are readonly, and a transaction runs only  *)
(* once every conflicting transaction begun before it has finished.  A     *)
(* transaction is active only in the turn that created it and in the       *)
(* callbacks of its own requests; when a turn ends, a transaction without  *)
(* outstanding requests commits and is finished.                           *)
(***************************************************************************)
Conflict(m1, m2) == m1 = "readwrite" \/ m2 = "readwrite"

Runnable(T, t) == \A u \in DOMAIN T : u < t => ~Conflict(T[u].mode, T[t].mode)

\* end of turn: the runnable transactions without requests finish
RECURSIVE Settle(_)
Settle(T) ==
  LET done == {t \in DOMAIN T : T[t].reqs = <<>> /\ Runnable(T, t)}
  IN IF done = {} THEN T ELSE Settle([t \in DOMAIN T \ done |-> T[t]])

\* a handle that accepts requests for as long as the method holds it
IsActiveForever(h, cur) == TRUE

\* the transaction h accepts a request in the turn that runs the callback of a
\* request of transaction cur (cur = h in the turn that created h)
IsActive(h, cur) == h = cur

Request(kind, p, i, doc) == [kind |-> kind, p |-> p, i |-> i, doc |-> doc]

\* M = [txs, txc, proc]: this.db.transaction(storeName, mode).objectStore(storeName)
Begin(M, mode, reqs) ==
  [M EXCEPT !.txs = M.txs @@ ((M.txc + 1) :> [mode |-> mode, reqs |-> reqs]),
            !.txc = M.txc + 1]

\* the method body after `await this._getTransaction(...)` has a connection,
\* up to the next suspension; unit i is the i-th insertOne of an insertMany
\* (1 for insertOne) and 0 for every other method
Proceed(M, p, i) ==
  LET c == M.proc[p]
  IN IF c.op \in InsertOps
       THEN LET B == Begin(M, "readwrite", <<Request("add", p, i, c.docs[i])>>)
            IN [B EXCEPT !.proc[p].sub[i] = "adding"]
     ELSE IF c.op \in WriteOps
       THEN LET B1 == Begin(M, "readwrite", <<>>)
                B2 == Begin(B1, "readonly", <<Request("getAll", p, 0, NoDoc)>>)
            IN [B2 EXCEPT !.proc[p].h = B1.txc, !.proc[p].st = "reading"]
     ELSE LET B == Begin(M, "readonly", <<Request("getAll", p, 0, NoDoc)>>)
          IN [B EXCEPT !.proc[p].st = "reading"]

RECURSIVE ProceedAll(_, _, _)
ProceedAll(M, p, units) ==
  IF units = <<>> THEN M
  ELSE ProceedAll(Proceed(M, p, Head(units)), p, Tail(units))

\* the units of a call: one per document for the inserts, else unit 0
Units(c) == IF c.op \in InsertOps THEN [i \in 1..Len(c.docs) |-> i] ELSE <<0>>

(***************************************************************************)
(* Promise plumbing.                                                       *)
(***************************************************************************)
AllOk(sub) == \A i \in 1..Len(sub) : sub[i] = "ok"

\* the first failure fails every unit of the call
UnitFailedFailsAll(c, i) ==
  [c EXCEPT !.sub = [j \in 1..Len(c.sub) |-> "failed"],
            !.st = IF c.st = "pending" THEN "rejected" ELSE c.st,
            !.err = IF c.st = "pending" THEN "request" ELSE c.err]

\* Promise.all over the units of a call: rejected by the first unit that
\* fails, resolved by the last one that succeeds
UnitFailed(c, i) ==
  [c EXCEPT !.sub[i] = "failed",
            !.st = IF c.st = "pending" THEN "rejected" ELSE c.st,
            !.err = IF c.st = "pending" THEN "request" ELSE c.err]
UnitOk(c, i, result) ==
  LET sub == [c.sub EXCEPT ![i] = "ok"]
      out == [c.out EXCEPT ![i] = result]
  IN [c EXCEPT !.sub = sub, !.out = out,
               !.st = IF c.st = "pending" /\ AllOk(sub) THEN "resolved" ELSE c.st]

\* the callers and the last settled call after a step that left the callers
\* as P and may have settled the call of p
Retire(P, p) == IF Settled(P[p]) THEN [P EXCEPT ![p] = Idle] ELSE P
Latest(P, p) == IF Settled(P[p]) THEN [P[p] EXCEPT !.h = 0] ELSE last

\* transaction numbers are compared among live transactions and held handles
\* only: the count restarts when no call is in flight
Renumber(P, n) == IF \A p \in Procs : P[p] = Idle THEN 0 ELSE n

\* prev after a step that leaves the callers as P and the store as S: the call
\* of p when it has settled and no other call is in flight
Record(P, p, S) ==
  IF Settled(P[p]) /\ \A r \in Procs \ {p} : ~Busy(P[r])
    THEN [op |-> P[p].op, q |-> P[p].q, patch |-> P[p].patch, st |-> P[p].st,
          err |-> P[p].err, snap |-> S]
    ELSE prev

(***************************************************************************)
(* The public methods, up to their first suspension.                       *)
(***************************************************************************)
\* the inserts that still may draw a key from the key generator
Drawing == {<<p, i>> \in Procs \X (1..MaxBatch) :
              i <= Len(proc[p].sub) /\ proc[p].sub[i] \in {"opening", "adding"}}

\* a handle that never finds its connection missing
NeverNeedsInit(d) == FALSE

\* _ensureDatabaseExists: `if (!this.db)`
NeedsInit(d) == d = 0

Call(p, c) ==
  \* the callers are interchangeable: the first free one makes the call
  /\ proc[p] = Idle
  /\ \A r \in 1..(p - 1) : proc[r] # Idle
  /\ nops < MaxOps
  /\ LET c0 == [c EXCEPT !.follows = prev,
                         !.reopened = NeedsInit(db),
                         !.st = IF c.op \in InsertOps THEN "pending" ELSE "opening",
                         !.sub = [i \in 1..Len(c.docs) |-> "opening"],
                         !.out = [i \in 1..Len(c.docs) |-> Undef]]
         P0 == [r \in Procs |-> IF r = p THEN c0 ELSE [proc[r] EXCEPT !.follows = NoPrev]]
     IN IF NeedsInit(db)
          \* `await this.init()`, once per unit
          THEN /\ openq' = openq \o [k \in 1..Len(Units(c0)) |-> [p |-> p, i |-> Units(c0)[k]]]
               /\ proc' = P0
               /\ UNCHANGED <<txs, txCount>>
          ELSE LET M == ProceedAll([txs |-> txs, txc |-> txCount, proc |-> P0], p, Units(c0))
               IN /\ txs' = Settle(M.txs)
                  /\ txCount' = M.txc
                  /\ proc' = M.proc
                  /\ UNCHANGED openq
  /\ nops' = nops + 1
  /\ prev' = NoPrev
  /\ last' = [last EXCEPT !.follows = NoPrev]
  /\ UNCHANGED <<db, idb, store, keyGen>>

insertOne(p, doc) ==
  /\ keyGen + Cardinality(Drawing) <= MaxKey
  /\ Call(p, [Idle EXCEPT !.op = "insertOne", !.docs = <<doc>>])

insertMany(p, docs) ==
  /\ keyGen + Cardinality(Drawing) + Len(docs) - 1 <= MaxKey
  /\ Call(p, [Idle EXCEPT !.op = "insertMany", !.docs = docs])

findOne(p, query) == Call(p, [Idle EXCEPT !.op = "findOne", !.q = query])

find(p, query) == Call(p, [Idle EXCEPT !.op = "find", !.q = query])

update(p, filter, patch) ==
  Call(p, [Idle EXCEPT !.op = "update", !.q = filter, !.patch = patch])

delete(p, query) == Call(p, [Idle EXCEPT !.op = "delete", !.q = query])

sum(p, field, condition) ==
  Call(p, [Idle EXCEPT !.op = "sum", !.field = field, !.q = condition])

aggregate(p, pipeline) == Call(p, [Idle EXCEPT !.op = "aggregate", !.pipeline = pipeline])

(***************************************************************************)
(* init(): the answer to the oldest open request.                          *)
(***************************************************************************)
OpenDone(ok) ==
  /\ openq # <<>>
  /\ LET o == Head(openq)
     IN /\ openq' = Tail(openq)
        /\ IF ok
             THEN \* onupgradeneeded (first open only), then onsuccess
                  LET M == IF o.p = 0
                             THEN [txs |-> txs, txc |-> txCount, proc |-> proc]
                             ELSE Proceed([txs |-> txs, txc |-> txCount, proc |-> proc], o.p, o.i)
                  IN /\ idb' = [exists |-> TRUE,
                                created |-> idb.created + (IF idb.exists THEN 0 ELSE 1),
                                conns |-> idb.conns + 1]
                     /\ db' = idb.conns + 1
                     /\ txs' = Settle(M.txs)
                     /\ txCount' = M.txc
                     /\ proc' = M.proc
                     /\ UNCHANGED <<prev, last>>
             ELSE \* onerror: reject; the constructor logs, a method fails
                  LET P == IF o.p = 0 THEN proc
                           ELSE IF o.i = 0
                             THEN [proc EXCEPT ![o.p].st = "rejected", ![o.p].err = "request"]
                           ELSE [proc EXCEPT ![o.p] = UnitFailed(@, o.i)]
                  IN /\ proc' = IF o.p = 0 THEN proc ELSE Retire(P, o.p)
                     /\ last' = IF o.p = 0 THEN last ELSE Latest(P, o.p)
                     /\ prev' = IF o.p = 0 THEN prev ELSE Record(P, o.p, store)
                     /\ txCount' = Renumber(proc', txCount)
                     /\ UNCHANGED <<db, idb, txs>>
  /\ UNCHANGED <<store, keyGen, nops>>

(***************************************************************************)
(* The answer to the oldest request of a running transaction, the handler  *)
(* it fires and the continuation of the method awaiting it.                *)
(***************************************************************************)
\* the number of documents read instead of the number of deletions
DeleteCountOfRead(c) == Len(c.all)

\* delete's `.then(results => results.length)`: one result per matched document
DeleteCount(c) == Len(c.docs)

\* store.put(updatedDoc) / store.delete(doc._id) for every matched document, on
\* the handle h the method acquired first; cur is the transaction whose
\* callback runs the loop.  N = [store, keyGen, txs, proc].
IssueWrites(N, p, kind, docs, cur) ==
  LET c == N.proc[p]
      reqs == [i \in 1..Len(docs) |-> Request(kind, p, i, docs[i])]
      pending == IF kind = "put" THEN "putting" ELSE "deleting"
  IN IF docs = <<>>
       \* Promise.all([]) resolves at once
       THEN [N EXCEPT !.proc[p].st = "resolved",
                      !.proc[p].out = IF kind = "put" THEN <<>> ELSE <<Num(DeleteCount(c))>>]
     ELSE IF IsActive(c.h, cur)
       THEN [N EXCEPT !.txs = IF c.h \in DOMAIN N.txs
                                THEN [N.txs EXCEPT ![c.h].reqs = @ \o reqs]
                                ELSE N.txs @@ (c.h :> [mode |-> "readwrite", reqs |-> reqs]),
                      !.proc[p].st = "writing",
                      !.proc[p].sub = [i \in 1..Len(docs) |-> pending]]
     \* TransactionInactiveError thrown in each promise executor
     ELSE [N EXCEPT !.proc[p].st = "rejected",
                    !.proc[p].err = "TransactionInactiveError",
                    !.proc[p].sub = [i \in 1..Len(docs) |-> "failed"]]

\* request.onsuccess of getAll, by method
OnGetAll(N, p, cur) ==
  LET c == N.proc[p]
      all == ReadAll(N.store)
      R == [N EXCEPT !.proc[p].all = all]
  IN CASE c.op = "find" ->
            [R EXCEPT !.proc[p].out = Filter(all, c.q), !.proc[p].st = "resolved"]
       [] c.op = "findOne" ->
            [R EXCEPT !.proc[p].out = FirstMatch(all, c.q), !.proc[p].st = "resolved"]
       [] c.op = "sum" ->
            [R EXCEPT !.proc[p].out = <<SumOf(all, c.field, c.q)>>, !.proc[p].st = "resolved"]
       [] c.op = "aggregate" ->
            [R EXCEPT !.proc[p].out = RunPipeline(all, c.pipeline), !.proc[p].st = "resolved"]
       [] c.op = "update" ->
            LET docs == Filter(all, c.q)
                upd == [i \in 1..Len(docs) |-> Merge(docs[i], c.patch)]
            IN IssueWrites([R EXCEPT !.proc[p].docs = docs, !.proc[p].upd = upd],
                           p, "put", upd, cur)
       [] c.op = "delete" ->
            LET docs == Filter(all, c.q)
            IN IssueWrites([R EXCEPT !.proc[p].docs = docs], p, "delete", docs, cur)

\* the last write of update / delete resolves Promise.all
WriteOk(c, i) ==
  LET sub == [c.sub EXCEPT ![i] = "ok"]
  IN [c EXCEPT !.sub = sub,
               !.st = IF c.st = "writing" /\ AllOk(sub) THEN "resolved" ELSE c.st,
               !.out = IF c.st = "writing" /\ AllOk(sub)
                         THEN (IF c.op = "update" THEN c.upd ELSE <<Num(DeleteCount(c))>>)
                         ELSE c.out]

\* the key generator after a record with this key has been stored
Bump(gen, key) == IF key >= gen THEN key + 1 ELSE gen

ProcessRequest(t, ok) ==
  /\ t \in DOMAIN txs
  /\ Runnable(txs, t)
  /\ txs[t].reqs # <<>>
  /\ LET r == Head(txs[t].reqs)
         rest == [txs EXCEPT ![t].reqs = Tail(@)]
         N0 == [store |-> store, keyGen |-> keyGen, txs |-> rest, proc |-> proc]
         key == IF r.doc["_id"].t = "number" THEN r.doc["_id"].n ELSE keyGen
         N == CASE r.kind = "add" ->
                     IF ok /\ key \notin DOMAIN store
                       THEN [N0 EXCEPT !.store = store @@ (key :> [r.doc EXCEPT !["_id"] = Num(key)]),
                                       !.keyGen = Bump(keyGen, key),
                                       !.proc[r.p] = UnitOk(@, r.i, Num(key))]
                       \* ConstraintError or an engine failure: the request's
                       \* error aborts its transaction
                       ELSE [N0 EXCEPT !.txs = Without(txs, t),
                                       !.proc[r.p] = UnitFailed(@, r.i)]
                [] r.kind = "getAll" ->
                     IF ok THEN OnGetAll(N0, r.p, t)
                     \* request.onerror: reject(request.error)
                     ELSE [N0 EXCEPT !.txs = Without(txs, t),
                                     !.proc[r.p].st = "rejected",
                                     !.proc[r.p].err = "request"]
                [] r.kind = "put" ->
                     [N0 EXCEPT !.store = [k \in DOMAIN store \cup {key} |->
                                             IF k = key THEN r.doc ELSE store[k]],
                                !.keyGen = Bump(keyGen, key),
                                !.proc[r.p] = WriteOk(@, r.i)]
                [] r.kind = "delete" ->
                     \* removed counts the records the requests of the call
                     \* took out of the store
                     [N0 EXCEPT !.store = Without(store, key),
                                !.proc[r.p] = WriteOk([@ EXCEPT !.removed =
                                                @ + (IF key \in DOMAIN store THEN 1 ELSE 0)], r.i)]
     IN /\ store' = N.store
        /\ keyGen' = N.keyGen
        /\ txs' = Settle(N.txs)
        /\ proc' = Retire(N.proc, r.p)
        /\ last' = Latest(N.proc, r.p)
        /\ prev' = Record(N.proc, r.p, N.store)
        /\ txCount' = Renumber(proc', txCount)
  /\ UNCHANGED <<db, idb, openq, nops>>

(***************************************************************************)
(* The calls of the model.                                                 *)
(***************************************************************************)
Query(f, v) == [k \in {f} |-> v]
Patch2(id, v) == [k \in {"_id", "a"} |-> IF k = "_id" THEN id ELSE v]

NewDocs == {Doc(Undef, Num(0), Undef), Doc(Undef, Num(0), Num(1)), Doc(Num(1), Num(1), Num(1))}
\* the batches of insertMany: n documents, with and without a key of their own
BatchDoc(i) == IF i = 2 THEN Doc(Num(1), Num(1), Num(1)) ELSE Doc(Undef, Num(0), Num(i % 2))
Batches == {[i \in 1..n |-> BatchDoc(i)] : n \in 2..MaxBatch}
Queries == {NoFields, Query("a", Num(0))}
Patches == {Query("a", Num(1)), Patch2(Num(2), Num(1))}

\* the store as an earlier session left it: the database is persistent
Kept == (1 :> Doc(Num(1), Num(0), Undef)) @@ (2 :> Doc(Num(2), Num(0), Num(1)))

\* the state after `new Bolt(storeName)`: the constructor has called init()
Init ==
  /\ db = 0
  /\ store \in {<<>>, Kept}
  /\ idb = [exists |-> store # <<>>, created |-> 0, conns |-> 0]
  /\ openq = <<[p |-> 0, i |-> 0]>>
  /\ keyGen = Cardinality(DOMAIN store) + 1
  /\ txs = <<>>
  /\ txCount = 0
  /\ proc = [p \in Procs |-> Idle]
  /\ last = Idle
  /\ nops = 0
  /\ prev = NoPrev

Next ==
  \/ \E ok \in BOOLEAN : OpenDone(ok)
  \/ \E t \in DOMAIN txs, ok \in BOOLEAN : ProcessRequest(t, ok)
  \/ \E p \in Procs, doc \in NewDocs : insertOne(p, doc)
  \/ \E p \in Procs, docs \in Batches : insertMany(p, docs)
  \/ \E p \in Procs, query \in Queries : find(p, query)
  \/ \E p \in Procs, filter \in Queries, patch \in Patches : update(p, filter, patch)
  \/ \E p \in Procs, query \in Queries : delete(p, query)

Spec == Init /\ [][Next]_vars

(***************************************************************************)
(* The query runs: one read method called on an open handle whose store    *)
(* holds documents of mixed types, as earlier inserts left them.           *)
(***************************************************************************)
ValuesA == {Undef, Num(1), Num(2), Str("1")}
ValuesB == {Undef, Num(1)}

\* the stores of n documents with keys 1..n
StoresOf(n) == [1..n -> ValuesA \X ValuesB]
AsStore(f) == [k \in DOMAIN f |-> Doc(Num(k), f[k][1], f[k][2])]
QueryStores == {AsStore(f) : f \in UNION {StoresOf(n) : n \in 0..MaxDocs}}

\* queries: literal values, and an operator object such as {$gte: n}
Operator == Obj(1)
QueryPairs == (({Num(1), Str("1"), Operator} \X {"a"}) \cup ({Num(1)} \X {"b"}))
RichQueries ==
  {NoFields} \cup {Query(pr[2], pr[1]) : pr \in QueryPairs}
    \cup {[k \in {"a", "b"} |-> Num(1)]}

Stages ==
  {MatchStage(q) : q \in {Query("a", Num(1)), Query("a", Operator)}}
    \cup {GroupStage("a", NoFields, <<"_id", "b">>),
          GroupStage("a", Query("b", Num(0)), <<"_id", "initial", "a">>)}
    \cup {OtherStage("$sort")}
Pipelines == UNION {[1..n -> Stages] : n \in 0..MaxStages}

InitQuery ==
  /\ db = 1
  /\ store \in QueryStores
  /\ idb = [exists |-> TRUE, created |-> 1, conns |-> 1]
  /\ openq = <<>>
  /\ keyGen = Cardinality(DOMAIN store) + 1
  /\ txs = <<>>
  /\ txCount = 0
  /\ proc = [p \in Procs |-> Idle]
  /\ last = Idle
  /\ nops = MaxOps - 1
  /\ prev = NoPrev

NextQuery ==
  \/ \E t \in DOMAIN txs, ok \in BOOLEAN : ProcessRequest(t, ok)
  \/ \E p \in Procs, query \in RichQueries : findOne(p, query)
  \/ \E p \in Procs, query \in RichQueries : find(p, query)
  \/ \E p \in Procs, field \in {"a", "b"}, condition \in RichQueries : sum(p, field, condition)
  \/ \E p \in Procs, pipeline \in Pipelines : aggregate(p, pipeline)

SpecQuery == InitQuery /\ [][NextQuery]_vars

(***************************************************************************)
(* Properties.                                                             *)
(***************************************************************************)
Done(op) == last.op = op /\ last.st = "resolved"

\* the document agrees with the query: at every key of the query it holds the
\* query's value, same type and same value
Agrees(doc, query) == \A k \in DOMAIN query : doc[k] = query[k]

\* the positions of a sequence whose document agrees with the query
Agreeing(docs, query) == {i \in 1..Len(docs) : Agrees(docs[i], query)}

\* out is docs restricted to the positions in idx, order kept
IsSelection(out, docs, idx) ==
  /\ Len(out) = Cardinality(idx)
  /\ \A i \in idx : out[Cardinality({j \in idx : j <= i})] = docs[i]

\* C4: find(Q) returns exactly the read-all documents that agree with Q on
\* every key of Q, in read-all order; the empty query returns every document
\* and no returned document lacks a queried key.
C4_FindIsExactSubsequence ==
  Done("find") =>
    /\ IsSelection(last.out, last.all, Agreeing(last.all, last.q))
    /\ last.q = NoFields => last.out = last.all
    /\ \A i \in 1..Len(last.out) : \A k \in DOMAIN last.q : last.out[i][k] # Undef

\* a find with a non-empty query that kept some documents and dropped others,
\* one of them for lacking the queried key
C4_Witness ==
  
    /\ Done("find") /\ last.q # NoFields
    /\ last.out # <<>> /\ Len(last.out) < Len(last.all)
    /\ \E i \in 1..Len(last.all) : \E k \in DOMAIN last.q : last.all[i][k] = Undef

\* the numeric total of a field over documents, anything but a number as 0
RECURSIVE NumericTotal(_, _)
NumericTotal(docs, field) ==
  IF docs = <<>> THEN 0
  ELSE (IF Head(docs)[field].t = "number" THEN Head(docs)[field].n ELSE 0)
         + NumericTotal(Tail(docs), field)

\* the documents of a sequence that agree with the query, order kept
RECURSIVE Select(_, _)
Select(docs, query) ==
  IF docs = <<>> THEN <<>>
  ELSE (IF Agrees(Head(docs), query) THEN <<Head(docs)>> ELSE <<>>) \o Select(Tail(docs), query)

\* C5: sum(field, Q) returns the numeric total of document[field] over the
\* documents matching Q, a missing or non-numeric field counting 0; the result
\* is a number.
C5_SumIsNumericTotal ==
  Done("sum") =>
    last.out = <<Num(NumericTotal(Select(last.all, last.q), last.field))>>

\* the aggregate call of p ran exactly one stage, a $group
OneGroup ==
  /\ Done("aggregate")
  /\ Len(last.pipeline) = 1
  /\ last.pipeline[1].tag = "$group"

\* the first position of the working set whose document has grouping value v
FirstSeen(docs, id, v) == CHOOSE i \in 1..Len(docs) : docs[i][id] = v /\ \A j \in 1..(i - 1) : docs[j][id] # v

\* C6: a Group stage emits its accumulators in first-seen order of the grouping
\* key, integer keys included.
C6_GroupsInFirstSeenOrder ==
  OneGroup =>
    LET g == last.pipeline[1].g
        out == last.out
    IN \A i, j \in 1..Len(out) :
         i < j => FirstSeen(last.all, g.id, out[i]["_id"]) < FirstSeen(last.all, g.id, out[j]["_id"])

\* the fields a $group declares for accumulation
Declared(g) == {g.keys[i] : i \in 1..Len(g.keys)} \ {"_id", "initial"}

\* the documents of the working set that fall into the group of accumulator acc
\* (those whose grouping value names the same property of `grouped`)
RECURSIVE Partition(_, _, _)
Partition(docs, id, v) ==
  IF docs = <<>> THEN <<>>
  ELSE (IF JsToString(Head(docs)[id]) = JsToString(v) THEN <<Head(docs)>> ELSE <<>>)
         \o Partition(Tail(docs), id, v)

\* C7: every accumulator of a Group stage has _id = the group key, the seed
\* fields as seeded, every other declared field f = the numeric total of
\* document[f] over the group (missing or non-numeric as 0), and no other field.
C7_GroupAccumulatesNumericTotals ==
  OneGroup =>
    LET g == last.pipeline[1].g
        out == last.out
    IN \A i \in 1..Len(out) :
         LET part == Partition(last.all, g.id, out[i]["_id"])
         IN /\ out[i]["_id"] = Head(part)[g.id]
            /\ \A f \in Fields \ {"_id"} :
                 IF f \in DOMAIN g.initial /\ f \notin Declared(g) THEN out[i][f] = g.initial[f]
                 ELSE IF f \in Declared(g) /\ f \notin DOMAIN g.initial
                   THEN out[i][f] = Num(NumericTotal(part, f))
                 ELSE f \in Declared(g) \/ out[i][f] = Undef

\* the aggregate call of p ran exactly one stage, a $match
OneMatch ==
  /\ Done("aggregate")
  /\ Len(last.pipeline) = 1
  /\ last.pipeline[1].tag = "$match"

HasOperator(query) == \E k \in DOMAIN query : query[k].t = "object"

Remove(seq, i) == [j \in 1..(Len(seq) - 1) |-> IF j < i THEN seq[j] ELSE seq[j + 1]]

Unknown(stage) == stage.tag \notin {"$match", "$group"}

\* C9: a stage that is neither match nor group leaves the working set as it
\* is: alone it returns the read-all documents, and aggregate returns what it
\* returns for the pipeline without that stage.
C9_UnknownStageIgnored ==
  Done("aggregate") =>
    /\ (\A i \in 1..Len(last.pipeline) : Unknown(last.pipeline[i]))
         => last.out = last.all
    /\ \A i \in 1..Len(last.pipeline) :
         Unknown(last.pipeline[i])
           => last.out = RunPipeline(last.all, Remove(last.pipeline, i))

\* an aggregate over a non-empty store ran an unknown stage and then a stage
\* that changed the working set
C9_Witness ==
  
    /\ Done("aggregate") /\ Len(last.pipeline) = 2
    /\ Unknown(last.pipeline[1]) /\ ~Unknown(last.pipeline[2])
    /\ last.out # <<>> /\ last.out # last.all

\* the calls in flight and the call that settled last
Calls == {proc[p] : p \in Procs} \cup {last}

\* C1: the document update writes back for a matched document D has the _id of
\* D, whatever the patch holds.
C1_UpdateKeepsId ==
  \A c \in Calls : c.op = "update" =>
    \A i \in 1..Len(c.upd) : c.upd[i]["_id"] = c.docs[i]["_id"]

\* the call that settled last was made right after the call `first` settled,
\* with the same query, nothing else having been in flight since `first` was made
Follows(first) ==
  /\ last.follows.op = first
  /\ last.follows.q = last.q

\* C2: find(Q) run right after delete(Q), no request of which the storage
\* engine failed, returns an empty sequence.
C2_FindAfterDeleteIsEmpty ==
  (Done("find") /\ Follows("delete") /\ last.follows.err # "request") => last.out = <<>>

Unsettled(p) ==
  IF proc[p].op \in InsertOps
    THEN {i \in 1..Len(proc[p].sub) : proc[p].sub[i] \in {"opening", "adding"}}
    ELSE {}

\* C10: an insert of insertMany fails or succeeds on its own: a step settles at
\* most one insert, the document of an insert that succeeds is in the store
\* under the key it was given, with the documents stored before, and a step in
\* which an insert fails leaves the store as it was.
C10_InsertsSettleAlone ==
  [][\A p \in Procs :
       LET c == IF proc'[p] = Idle THEN last' ELSE proc'[p]
           settling == {i \in Unsettled(p) : c.sub[i] \in {"ok", "failed"}}
       IN /\ Cardinality(settling) <= 1
          /\ \A i \in settling :
               IF c.sub[i] = "ok"
                 THEN /\ c.out[i].n \in DOMAIN store'
                      /\ store'[c.out[i].n] = [c.docs[i] EXCEPT !["_id"] = c.out[i]]
                      /\ \A k \in DOMAIN store : k \in DOMAIN store' /\ store'[k] = store[k]
                 ELSE store' = store]_vars

\* an insertMany one of whose inserts failed first and another succeeded later
C10_Witness ==
  /\ last.op = "insertMany" /\ last.st = "rejected"
  /\ last.sub[1] = "failed" /\ last.sub[2] = "ok"
  /\ last.out[2].n \in DOMAIN store

\* the open request answered by this step, when the step answers one
Answered == Head(openq)
AnswersOpen == openq # <<>> /\ openq' = Tail(openq)
OpenFailed == AnswersOpen /\ idb' = idb

\* the call of caller p after the step, in flight or just settled
After(p) == IF proc'[p] = Idle THEN last' ELSE proc'[p]

\* C11: when the constructor's init fails the connection stays unset and no
\* call is failed by it; a call that finds the connection unset asks for one
\* open per transaction it needs and begins no transaction before the answer;
\* when the answer is a connection the transaction is begun on it, when it is a
\* failure the call fails, no transaction is begun and the store stays as it
\* was.  No step begins a transaction while the connection is unset.
C11_ReopenBeforeTransaction ==
  [][/\ txCount' > txCount => db' # 0
     /\ (OpenFailed /\ Answered.p = 0) => (db' = 0 /\ proc' = proc /\ last' = last)
     /\ (nops' > nops /\ db = 0)
          => /\ txCount' = txCount
             /\ \E p \in Procs :
                  /\ proc[p] = Idle /\ proc'[p] # Idle
                  /\ Len(openq') = Len(openq) + Len(Units(proc'[p]))
     /\ Len(openq') > Len(openq) => (nops' > nops /\ db = 0)
     /\ (AnswersOpen /\ Answered.p # 0) =>
          IF OpenFailed
            THEN /\ store' = store /\ txCount' <= txCount /\ db' = db
                 /\ After(Answered.p).st = "rejected"
            ELSE /\ db' # 0 /\ txCount' > txCount
                 /\ \E t \in DOMAIN txs' \ DOMAIN txs : txs'[t].reqs # <<>>]_vars

\* the constructor's init failed, and a call made afterwards opened the only
\* connection there is and resolved on it
C11_Witness ==
  /\ last.st = "resolved" /\ last.reopened
  /\ db = 1 /\ idb.conns = 1 /\ openq = <<>>

\* C12: findOne(Q) returns the first read-all document that agrees with Q, and
\* null exactly when no document agrees with Q.
C12_FindOneIsFirstMatch ==
  Done("findOne") =>
    LET idx == Agreeing(last.all, last.q)
    IN IF idx = {} THEN last.out = <<>>
       ELSE last.out = <<last.all[CHOOSE i \in idx : \A j \in idx : i <= j]>>

\* a findOne with a non-empty query over a store in which two documents agree
\* with it
C12_Witness ==
  /\ Done("findOne") /\ last.q # NoFields
  /\ Cardinality(Agreeing(last.all, last.q)) = 2
  /\ last.out = <<last.all[1]>>

\* the write calls of the call threw instead of handing the store a request
Thrown(c) == c.err = "TransactionInactiveError"

\* the key under which a document is stored
KeyOf(doc) == doc["_id"].n

\* C13: update issues a write for every document it matched, whatever becomes
\* of the other writes, and the document of a write that succeeded is in the
\* store even when update as a whole fails.
C13_UpdateWritesEveryMatch ==
  \A c \in Calls :
    (c.op = "update" /\ c.docs # <<>>) =>
      /\ ~Thrown(c)
      /\ \A i \in 1..Len(c.sub) :
           c.sub[i] = "ok" => (KeyOf(c.upd[i]) \in DOMAIN store /\ store[KeyOf(c.upd[i])] = c.upd[i])

Serving(p) == {t \in DOMAIN txs : \E i \in 1..Len(txs[t].reqs) : txs[t].reqs[i].p = p}

\* C15: every request of an update or a delete, the read-all as well as the
\* writes, is made on the one transaction the call acquired first, and that
\* transaction still accepts requests when the writes are made.
C15_OneHandlePerWrite ==
  /\ \A p \in Procs : proc[p].op \in WriteOps => Serving(p) \subseteq {proc[p].h}
  /\ \A c \in Calls : c.op \in WriteOps => ~Thrown(c)

\* the values the working set holds at the grouping field
KeyValues(docs, id) == {docs[i][id] : i \in 1..Len(docs)}

\* C16: a Group stage emits one accumulator per distinct value of the grouping
\* field, a value being distinct from every value of another type (the number
\* 1 and the string "1" make two groups), and each accumulator's _id is the
\* value of its group.
C16_OneGroupPerKeyValue ==
  OneGroup =>
    LET g == last.pipeline[1].g
    IN /\ Len(last.out) = Cardinality(KeyValues(last.all, g.id))
       /\ "_id" \notin DOMAIN g.initial
            => {last.out[i]["_id"] : i \in 1..Len(last.out)} = KeyValues(last.all, g.id)

\* C17: however calls interleave with the constructor's init, the object store
\* is created at most once, and once every open has been answered the database
\* has one open connection, the one the handle holds.
C17_OpenIsIdempotent ==
  /\ idb.created <= 1
  /\ (openq = <<>> /\ db # 0) => (idb.conns = 1 /\ db = 1)

====
